---- MODULE Spec2Model ----
(***************************************************************************)
(* A model of cvcio/policy (src/abac.go): the ABAC PolicyManager, its      *)
(* construction from functional options, and Evaluate / matchPolicy.       *)
(***************************************************************************)
EXTENDS Integers, Sequences, FiniteSets, TLC

(***************************************************************************)
(* Bounds of the model.                                                    *)
(***************************************************************************)
\* longest literal list handed to a single WithPolicies(...) option
MaxRules == 2
\* longest option list handed to NewPolicyManager(...) when options are mixed
MaxOpts == 2
\* number of goroutines calling Evaluate on one manager
NumCallers == 2

SeqsUpTo(S, n) == UNION {[1..m -> S] : m \in 0..n}

(***************************************************************************)
(* Data: PolicySpec, UserAttributes, ResourceAttributes.                   *)
(***************************************************************************)
PolicyFields == {"Role", "User", "Group", "Resource", "Namespace", "NonResourcePath"}

PolicySpec(role, usr, group, res, ns, ro, nrp) ==
    [Role |-> role, User |-> usr, Group |-> group, Resource |-> res,
     Namespace |-> ns, ReadOnly |-> ro, NonResourcePath |-> nrp]

UserAttributes ==
    [UserID : {"user1", "user2"},
     GroupID : {"teamA", "teamB"},
     Roles : {<<>>, <<"admin">>, <<"dev", "admin">>}]

ResourceAttributes ==
    [Resource : {"resource1", "/foo/bar"},
     Namespace : {"ns1", "ns2"},
     ReadOnly : BOOLEAN]

\* the zero-valued-but-present structures
ZeroUser == [UserID |-> "", GroupID |-> "", Roles |-> <<>>]
ZeroResource == [Resource |-> "", Namespace |-> "", ReadOnly |-> FALSE]

(***************************************************************************)
(* defaultPolicies()                                                       *)
(***************************************************************************)
defaultPoliciesAdminReadOnly ==
    << PolicySpec("*", "*", "*", "*", "*", TRUE, "*"),
       PolicySpec("admin", "*", "*", "*", "*", TRUE, "*") >>

defaultPolicies ==
    << PolicySpec("*", "*", "*", "*", "*", TRUE, "*"),
       PolicySpec("admin", "*", "*", "*", "*", FALSE, "*") >>

(***************************************************************************)
(* matchesSlice, matchesString, matchPolicy, Evaluate.                     *)
(***************************************************************************)
matchesSlice(pattern, list) ==
    IF pattern = "*" \/ pattern = ""
    THEN TRUE
    ELSE \E n \in 1..Len(list) : list[n] = pattern

matchesStringStarOnly(pattern, value) ==
    pattern = "*" \/ pattern = value

matchesString(pattern, value) ==
    pattern = "*" \/ pattern = "" \/ pattern = value

\* the prefix semantics the NonResourcePath field comment describes
IsSubpath(pattern, value) ==
    <<pattern, value>> \in {<<"/foo/*", "/foo/bar">>}

matchPolicyNoReadOnly(policy, usr, res) ==
    /\ matchesSlice(policy.Role, usr.Roles)
    /\ matchesString(policy.User, usr.UserID)
    /\ matchesString(policy.Group, usr.GroupID)
    /\ matchesString(policy.Resource, res.Resource)
    /\ matchesString(policy.Namespace, res.Namespace)
    /\ matchesString(policy.NonResourcePath, res.Resource)

matchPolicyReadOnlyAsCommented(policy, usr, res) ==
    /\ matchPolicyNoReadOnly(policy, usr, res)
    /\ (~policy.ReadOnly \/ res.ReadOnly)

matchPolicySubpath(policy, usr, res) ==
    /\ matchesSlice(policy.Role, usr.Roles)
    /\ matchesString(policy.User, usr.UserID)
    /\ matchesString(policy.Group, usr.GroupID)
    /\ matchesString(policy.Resource, res.Resource)
    /\ matchesString(policy.Namespace, res.Namespace)
    /\ (matchesString(policy.NonResourcePath, res.Resource)
           \/ IsSubpath(policy.NonResourcePath, res.Resource))
    /\ (policy.ReadOnly = res.ReadOnly)

matchPolicy(policy, usr, res) ==
    /\ matchesSlice(policy.Role, usr.Roles)
    /\ matchesString(policy.User, usr.UserID)
    /\ matchesString(policy.Group, usr.GroupID)
    /\ matchesString(policy.Resource, res.Resource)
    /\ matchesString(policy.Namespace, res.Namespace)
    /\ matchesString(policy.NonResourcePath, res.Resource)
    /\ (policy.ReadOnly = res.ReadOnly)

\* the range loop of Evaluate from index n on
RECURSIVE EvaluateFrom(_, _, _, _)
EvaluateFrom(ps, n, usr, res) ==
    IF n > Len(ps)
    THEN FALSE
    ELSE IF matchPolicy(ps[n], usr, res)
         THEN TRUE
         ELSE EvaluateFrom(ps, n + 1, usr, res)

EvaluateLastRuleWins(ps, usr, res) ==
    Len(ps) > 0 /\ matchPolicy(ps[Len(ps)], usr, res)

Evaluate(ps, usr, res) == EvaluateFrom(ps, 1, usr, res)

(***************************************************************************)
(* Policy documents on disk and json.NewDecoder(file).Decode(&newPolicies).*)
(* A file is absent, or opens but cannot be read, or holds text.  The      *)
(* streaming decoder consumes exactly one JSON value from the front of the *)
(* text (value) and never looks at what follows it (trailing).  A JSON     *)
(* object is a function from the keys present to their values.             *)
(***************************************************************************)
FileSystem ==
    [ f \in {"policies.json", "missing.json", "dir", "broken.json",
             "object.json", "trailing.json"} |->
        CASE f = "policies.json" ->
               [exists |-> TRUE, readable |-> TRUE, kind |-> "array",
                elems |-> << [role |-> "dev", readonly |-> TRUE],
                             [user |-> "user2", nonResourcePath |-> "/foo/bar"] >>,
                trailing |-> FALSE]
          [] f = "missing.json" ->
               [exists |-> FALSE, readable |-> FALSE, kind |-> "invalid",
                elems |-> <<>>, trailing |-> FALSE]
          [] f = "dir" ->
               [exists |-> TRUE, readable |-> FALSE, kind |-> "invalid",
                elems |-> <<>>, trailing |-> FALSE]
          [] f = "broken.json" ->
               [exists |-> TRUE, readable |-> TRUE, kind |-> "invalid",
                elems |-> <<>>, trailing |-> FALSE]
          [] f = "object.json" ->
               [exists |-> TRUE, readable |-> TRUE, kind |-> "object",
                elems |-> <<>>, trailing |-> FALSE]
          [] f = "trailing.json" ->
               [exists |-> TRUE, readable |-> TRUE, kind |-> "array",
                elems |-> << [group |-> "teamB"] >>,
                trailing |-> TRUE] ]

\* os.Open(filename) fails
OpenFails(filename) == ~FileSystem[filename].exists

StringField(obj, key) == IF key \in DOMAIN obj THEN obj[key] ELSE ""
BoolField(obj, key) == IF key \in DOMAIN obj THEN obj[key] ELSE FALSE

\* one JSON object decoded into a PolicySpec through the struct's json tags
DecodeObject(obj) ==
    [Role |-> StringField(obj, "role"),
     User |-> StringField(obj, "user"),
     Group |-> StringField(obj, "group"),
     Resource |-> StringField(obj, "resource"),
     Namespace |-> StringField(obj, "namespace"),
     ReadOnly |-> BoolField(obj, "readonly"),
     NonResourcePath |-> StringField(obj, "nonResourcePath")]

\* Decode returns an error: a read error, a syntax error inside the first
\* value, or a first value that is not an array
DecodeFails(filename) ==
    LET f == FileSystem[filename]
    IN  ~f.readable \/ f.kind # "array"

\* newPolicies after a successful Decode
Decode(filename) ==
    LET f == FileSystem[filename]
    IN  [n \in 1..Len(f.elems) |-> DecodeObject(f.elems[n])]

(***************************************************************************)
(* Options.                                                                *)
(***************************************************************************)
WithDefaultPolicies ==
    [type |-> "WithDefaultPolicies", policies |-> <<>>, filename |-> ""]
WithPolicies(ps) ==
    [type |-> "WithPolicies", policies |-> ps, filename |-> ""]
WithPoliciesFromFile(filename) ==
    [type |-> "WithPoliciesFromFile", policies |-> <<>>, filename |-> filename]

(***************************************************************************)
(* Inputs explored.                                                        *)
(***************************************************************************)
\* the rule of TestPolicyManager_Evaluate
TestRule == PolicySpec("admin", "user1", "", "resource1", "", FALSE, "")

RulePool ==
    { defaultPolicies[1],
      defaultPolicies[2],
      TestRule,
      PolicySpec("", "", "", "", "", FALSE, ""),
      PolicySpec("*", "*", "teamA", "*", "*", TRUE, "*"),
      PolicySpec("", "", "", "", "", FALSE, "/foo/*"),
      PolicySpec("*", "", "*", "resource1", "", FALSE, "/foo/bar"),
      PolicySpec("dev", "*", "", "", "ns1", TRUE, "/foo/bar") }

\* every rule over these patterns, for stores of one rule
PolicySpecs ==
    [Role : {"*", "", "admin"},
     User : {"*", "", "user1"},
     Group : {"*", "", "teamA"},
     Resource : {"*", "", "resource1"},
     Namespace : {"*", "", "ns1"},
     ReadOnly : BOOLEAN,
     NonResourcePath : {"*", "", "/foo/*", "/foo/bar"}]

\* NewPolicyManager(WithPolicies(rules...))
SingleOptionLists ==
    {<<WithPolicies(ps)>> : ps \in SeqsUpTo(RulePool, MaxRules)}
    \cup {<<WithPolicies(<<r>>)>> : r \in PolicySpecs}

MixedOptions ==
    {WithDefaultPolicies,
     WithPolicies(<<TestRule>>),
     WithPolicies(<<PolicySpec("", "", "", "", "", FALSE, "/foo/*"), TestRule>>)}
    \cup {WithPoliciesFromFile(f) : f \in DOMAIN FileSystem}

\* NewPolicyManager(opt1, ..., optN)
MixedOptionLists == SeqsUpTo(MixedOptions, MaxOpts)

ConcurrentOptionLists ==
    { <<WithDefaultPolicies>>,
      <<WithPolicies(<<TestRule>>), WithPoliciesFromFile("policies.json")>>,
      <<WithDefaultPolicies, WithPolicies(<<TestRule>>)>>,
      <<WithDefaultPolicies, WithPoliciesFromFile("missing.json")>> }

ConcurrentUsers ==
    { [UserID |-> "user1", GroupID |-> "teamA", Roles |-> <<"admin">>],
      [UserID |-> "user2", GroupID |-> "teamB", Roles |-> <<"dev">>] }

ConcurrentResources ==
    { [Resource |-> "resource1", Namespace |-> "ns1", ReadOnly |-> FALSE],
      [Resource |-> "/foo/bar", Namespace |-> "ns2", ReadOnly |-> TRUE] }

Callers == 1..NumCallers

(***************************************************************************)
(* State.                                                                  *)
(***************************************************************************)
VARIABLES
    opts,       \* the options handed to NewPolicyManager
    k,          \* options applied so far by the loop of NewPolicyManager
    policies,   \* p.policies
    pc,         \* "building" | "returned" | "panicked"
    called,     \* a sequential caller holds the result of an Evaluate call
    user,       \* that call's user attributes
    resource,   \* that call's resource attributes
    result,     \* that call's return value
    calls       \* per concurrent caller: its Evaluate call in progress

vars == <<opts, k, policies, pc, called, user, resource, result, calls>>

IdleCall == [pc |-> "idle", user |-> ZeroUser, resource |-> ZeroResource,
             n |-> 0, result |-> FALSE]

InitWith(optionLists) ==
    /\ opts \in optionLists
    /\ k = 0
    /\ policies = <<>>
    /\ pc = "building"
    /\ called = FALSE
    /\ user = ZeroUser
    /\ resource = ZeroResource
    /\ result = FALSE
    /\ calls = [c \in Callers |-> IdleCall]

Init == InitWith(SingleOptionLists \cup MixedOptionLists)

InitConcurrent == InitWith(ConcurrentOptionLists)

(***************************************************************************)
(* NewPolicyManager: one action per option kind, and the return.           *)
(***************************************************************************)
NextOptionIs(type) ==
    /\ pc = "building"
    /\ k < Len(opts)
    /\ opts[k + 1].type = type

ApplyWithDefaultPolicies ==
    /\ NextOptionIs("WithDefaultPolicies")
    /\ policies' = policies \o defaultPolicies
    /\ k' = k + 1
    /\ UNCHANGED <<opts, pc, called, user, resource, result, calls>>

ApplyWithPoliciesOverwrite ==
    /\ NextOptionIs("WithPolicies")
    /\ policies' = opts[k + 1].policies
    /\ k' = k + 1
    /\ UNCHANGED <<opts, pc, called, user, resource, result, calls>>

ApplyWithPolicies ==
    /\ NextOptionIs("WithPolicies")
    /\ policies' = policies \o opts[k + 1].policies
    /\ k' = k + 1
    /\ UNCHANGED <<opts, pc, called, user, resource, result, calls>>

ApplyWithPoliciesFromFile ==
    /\ NextOptionIs("WithPoliciesFromFile")
    /\ LET filename == opts[k + 1].filename
       IN  IF OpenFails(filename) \/ DecodeFails(filename)
           THEN /\ pc' = "panicked"
                /\ UNCHANGED <<policies, k>>
           ELSE /\ policies' = policies \o Decode(filename)
                /\ k' = k + 1
                /\ pc' = pc
    /\ UNCHANGED <<opts, called, user, resource, result, calls>>

NewPolicyManagerReturn ==
    /\ pc = "building"
    /\ k = Len(opts)
    /\ pc' = "returned"
    /\ UNCHANGED <<opts, k, policies, called, user, resource, result, calls>>

(***************************************************************************)
(* Evaluate, called by a sequential caller: the whole call.                *)
(***************************************************************************)
EvaluateCall ==
    /\ pc = "returned"
    /\ ~called
    /\ \E usr \in UserAttributes, res \in ResourceAttributes :
          /\ user' = usr
          /\ resource' = res
          /\ result' = Evaluate(policies, usr, res)
    /\ called' = TRUE
    /\ UNCHANGED <<opts, k, policies, pc, calls>>

\* the caller has used the result and may call again
EvaluateNext ==
    /\ called
    /\ called' = FALSE
    /\ user' = ZeroUser
    /\ resource' = ZeroResource
    /\ result' = FALSE
    /\ UNCHANGED <<opts, k, policies, pc, calls>>

(***************************************************************************)
(* Evaluate, called by concurrent callers: one rule per step.              *)
(***************************************************************************)
EvaluateBegin(c) ==
    /\ pc = "returned"
    /\ calls[c].pc = "idle"
    /\ \E usr \in ConcurrentUsers, res \in ConcurrentResources :
          calls' = [calls EXCEPT ![c] =
                       [pc |-> "loop", user |-> usr, resource |-> res,
                        n |-> 1, result |-> FALSE]]
    /\ UNCHANGED <<opts, k, policies, pc, called, user, resource, result>>

EvaluateStepConsuming(c) ==
    /\ calls[c].pc = "loop"
    /\ IF policies = <<>>
       THEN /\ calls' = [calls EXCEPT ![c].pc = "done", ![c].result = FALSE]
            /\ policies' = policies
       ELSE IF matchPolicy(Head(policies), calls[c].user, calls[c].resource)
            THEN /\ calls' = [calls EXCEPT ![c].pc = "done", ![c].result = TRUE]
                 /\ policies' = policies
            ELSE /\ calls' = calls
                 /\ policies' = Tail(policies)
    /\ UNCHANGED <<opts, k, pc, called, user, resource, result>>

EvaluateStep(c) ==
    /\ calls[c].pc = "loop"
    /\ IF calls[c].n > Len(policies)
       THEN calls' = [calls EXCEPT ![c].pc = "done", ![c].result = FALSE]
       ELSE IF matchPolicy(policies[calls[c].n], calls[c].user, calls[c].resource)
            THEN calls' = [calls EXCEPT ![c].pc = "done", ![c].result = TRUE]
            ELSE calls' = [calls EXCEPT ![c].n = calls[c].n + 1]
    /\ UNCHANGED <<opts, k, policies, pc, called, user, resource, result>>

EvaluateReturn(c) ==
    /\ calls[c].pc = "done"
    /\ calls' = [calls EXCEPT ![c] = IdleCall]
    /\ UNCHANGED <<opts, k, policies, pc, called, user, resource, result>>

(***************************************************************************)
(* Specifications.                                                         *)
(***************************************************************************)
Construct ==
    \/ ApplyWithDefaultPolicies
    \/ ApplyWithPolicies
    \/ ApplyWithPoliciesFromFile
    \/ NewPolicyManagerReturn

Next ==
    \/ Construct
    \/ EvaluateCall
    \/ EvaluateNext

NextConcurrent ==
    \/ Construct
    \/ \E c \in Callers : EvaluateBegin(c)
    \/ \E c \in Callers : EvaluateStep(c)
    \/ \E c \in Callers : EvaluateReturn(c)

Spec == Init /\ [][Next]_vars

SpecConcurrent == InitConcurrent /\ [][NextConcurrent]_vars

(***************************************************************************)
(* Properties.                                                             *)
(***************************************************************************)
IsWildcard(pattern) == pattern = "*" \/ pattern = ""

\* the six pattern conditions of a rule on a request, written out
SixConditions(rule, usr, res) ==
    /\ IsWildcard(rule.Role) \/ rule.Role \in {usr.Roles[n] : n \in 1..Len(usr.Roles)}
    /\ IsWildcard(rule.User) \/ rule.User = usr.UserID
    /\ IsWildcard(rule.Group) \/ rule.Group = usr.GroupID
    /\ IsWildcard(rule.Resource) \/ rule.Resource = res.Resource
    /\ IsWildcard(rule.Namespace) \/ rule.Namespace = res.Namespace
    /\ IsWildcard(rule.NonResourcePath) \/ rule.NonResourcePath = res.Resource

AllWildcard(rule) == \A f \in PolicyFields : IsWildcard(rule[f])

C1_WitnessEmptyStore == called /\ policies = <<>> /\ ~result

C3_ReadOnlyFalseMatchesAllRequests ==
    called =>
        \A n \in 1..Len(policies) :
            (/\ SixConditions(policies[n], user, resource)
             /\ (~policies[n].ReadOnly \/ resource.ReadOnly))
                => result

Swap(pattern) == IF pattern = "*" THEN "" ELSE "*"

\* C4: replacing "*" by the empty string, or the empty string by "*", in any
\* pattern field of any rule of the store leaves the result of Evaluate
\* unchanged.
C4_WildcardAndEmptyInterchangeable ==
    called =>
        \A n \in 1..Len(policies) : \A f \in PolicyFields :
            IsWildcard(policies[n][f]) =>
                Evaluate([policies EXCEPT ![n][f] = Swap(policies[n][f])],
                         user, resource) = result

C4_Witness ==
    /\ called
    /\ result
    /\ Len(policies) = 1
    /\ policies[1].Role = ""
    /\ policies[1].User = "*"
    /\ policies[1].Resource = "resource1"

\* what an option contributes to the store
Contribution(opt) ==
    CASE opt.type = "WithPolicies" -> opt.policies
      [] opt.type = "WithDefaultPolicies" ->
            << [Role |-> "*", User |-> "*", Group |-> "*", Resource |-> "*",
                Namespace |-> "*", ReadOnly |-> TRUE, NonResourcePath |-> "*"],
               [Role |-> "admin", User |-> "*", Group |-> "*", Resource |-> "*",
                Namespace |-> "*", ReadOnly |-> FALSE, NonResourcePath |-> "*"] >>
      [] opt.type = "WithPoliciesFromFile" -> Decode(opt.filename)

RECURSIVE Concatenation(_, _)
Concatenation(os, n) ==
    IF n = 0 THEN <<>> ELSE Concatenation(os, n - 1) \o Contribution(os[n])

\* every ordering of the indices in S
RECURSIVE Orderings(_)
Orderings(S) ==
    IF S = {}
    THEN {<<>>}
    ELSE UNION {{<<x>> \o p : p \in Orderings(S \ {x})} : x \in S}

Reorderings(s) ==
    {[n \in 1..Len(s) |-> s[p[n]]] : p \in Orderings(1..Len(s))}

\* C5: Evaluate returns the same result on every permutation of the store's
\* rules, and on the store of every reordering of the construction options.
C5_OrderIndependent ==
    called =>
        /\ \A ps \in Reorderings(policies) :
              Evaluate(ps, user, resource) = result
        /\ \A os \in Reorderings(opts) :
              Evaluate(Concatenation(os, Len(os)), user, resource) = result

C5_Witness ==
    /\ called
    /\ result
    /\ Len(policies) >= 2
    /\ matchPolicy(policies[1], user, resource)
    /\ ~matchPolicy(policies[Len(policies)], user, resource)

\* C6: a manager built with only the default table allows every read-only
\* request, allows every request of a user whose roles contain "admin", and
\* denies exactly the non-read-only requests of users without "admin".
C6_DefaultTable ==
    (called /\ opts = <<WithDefaultPolicies>>)
        => (result <=> (resource.ReadOnly
                           \/ \E n \in 1..Len(user.Roles) : user.Roles[n] = "admin"))

C6_Witness ==
    /\ called
    /\ opts = <<WithDefaultPolicies>>
    /\ ~resource.ReadOnly
    /\ user.Roles = <<"dev", "admin">>
    /\ result

C6_WitnessDenied ==
    /\ called
    /\ opts = <<WithDefaultPolicies>>
    /\ ~resource.ReadOnly
    /\ user.Roles = <<>>
    /\ ~result

\* C7: the store is the concatenation, in option order, of what each applied
\* option contributes; after NewPolicyManager returns that is all options,
\* and with zero options the store is empty.
C7_StoreIsConcatenation ==
    /\ policies = Concatenation(opts, k)
    /\ pc = "returned" => k = Len(opts)
    /\ (pc = "returned" /\ opts = <<>>) => policies = <<>>

C7_Witness ==
    /\ pc = "returned"
    /\ Len(opts) = 2
    /\ opts[1].type = "WithPoliciesFromFile"
    /\ opts[2].type = "WithPolicies"
    /\ Len(policies) = 4
    /\ policies[1].Role = "dev"
    /\ policies[2].User = "user2"
    /\ policies[3].NonResourcePath = "/foo/*"
    /\ policies[4] = TestRule

\* equal rules are both kept
C7_WitnessDuplicates ==
    /\ pc = "returned"
    /\ opts = <<WithPolicies(<<TestRule>>), WithPolicies(<<TestRule>>)>>
    /\ policies = <<TestRule, TestRule>>

\* a missing, unreadable or malformed document: the file cannot be opened or
\* read, or its text is not one well-formed JSON array of rule objects
BadDocument(filename) ==
    LET f == FileSystem[filename]
    IN  ~f.exists \/ ~f.readable \/ f.kind # "array" \/ f.trailing

\* C8: a file option that meets a missing, unreadable or malformed document
\* stops construction there: the option is never passed, no rule of the
\* document is added, no manager is returned, and Evaluate never runs.
C8_BadDocumentStopsConstruction ==
    \A n \in 1..Len(opts) :
        (opts[n].type = "WithPoliciesFromFile" /\ BadDocument(opts[n].filename))
            => /\ k < n
               /\ pc # "returned"
               /\ ~called

\* an error from os.Open or from Decode stops construction at that option and
\* leaves the store as the options before it built it
DecodeErrorStopsConstruction ==
    \A n \in 1..Len(opts) :
        (/\ opts[n].type = "WithPoliciesFromFile"
         /\ (OpenFails(opts[n].filename) \/ DecodeFails(opts[n].filename)))
            => /\ k < n
               /\ pc # "returned"
               /\ ~called
               /\ policies = Concatenation(opts, k)

\* C9: once construction has completed, concurrent Evaluate calls never modify
\* the store or a caller's attributes, and each call returns what Evaluate
\* returns on that store and request alone.
C9_ConcurrentEvaluateIsReadOnly ==
    /\ [][pc = "returned" =>
            /\ policies' = policies
            /\ \A c \in Callers :
                  (calls[c].pc # "idle" /\ calls'[c].pc # "idle") =>
                      /\ calls'[c].user = calls[c].user
                      /\ calls'[c].resource = calls[c].resource]_vars
    /\ [](\A c \in Callers :
            calls[c].pc = "done" =>
                calls[c].result =
                    Evaluate(Concatenation(opts, Len(opts)),
                             calls[c].user, calls[c].resource))

C9_Witness ==
    /\ calls[1].pc = "done"
    /\ calls[1].result
    /\ calls[2].pc = "loop"
    /\ calls[2].n = 2
    /\ calls[1].user # calls[2].user

C10_WitnessExclusive ==
    /\ called
    /\ ~result
    /\ Len(policies) = 1
    /\ policies[1].Resource = "resource1"
    /\ policies[1].NonResourcePath = "/foo/bar"
    /\ policies[1].ReadOnly = resource.ReadOnly
    /\ IsWildcard(policies[1].Role)
    /\ IsWildcard(policies[1].User)
    /\ IsWildcard(policies[1].Group)
    /\ IsWildcard(policies[1].Namespace)

====
